---- MODULE Spec2Model ----
(***************************************************************************)
(* Model of ferri's ingestion pipeline (main.go, processors/, database/).   *)
(* Strings are sequences of one-character strings, so that trimming,        *)
(* prefix stripping, splitting and classification are computed character    *)
(* by character as the Go code computes them.  Every database/sql call is   *)
(* one atomic step of the invocation that makes it; several invocations of  *)
(* the binary (Procs) share the SQLite file.                                *)
(***************************************************************************)
EXTENDS Integers, Sequences, FiniteSets, TLC

(***************************************************************************)
(* Bounds                                                                   *)
(***************************************************************************)
\* longest stdin (in raw lines) an invocation is given
MaxLines == 2
\* store errors injected over a behaviour (I/O error, SQLITE_BUSY, ...)
MaxFaults == 1
\* longest line of the exhaustive line set
MaxStrLen == 4
\* most subdomain prefixes stacked in front of a host
MaxPrefixes == 2

\* the invocations of the binary that share the database, named in the
\* order in which the shell starts them
Procs == {"p1", "p2"}
StartsBefore(p, q) == p = "p1" /\ q = "p2"

(***************************************************************************)
(* strings package                                                          *)
(***************************************************************************)
Upper == <<"A","B","C","D","E","F","G","H","I","J","K","L","M",
           "N","O","P","Q","R","S","T","U","V","W","X","Y","Z">>
Lower == <<"a","b","c","d","e","f","g","h","i","j","k","l","m",
           "n","o","p","q","r","s","t","u","v","w","x","y","z">>

\* case folding of one character, as the regexp flag (?i) applies it
ToLower(c) ==
  IF \E i \in 1..Len(Upper) : Upper[i] = c
  THEN Lower[CHOOSE i \in 1..Len(Upper) : Upper[i] = c]
  ELSE c

LowerStr(s) == [i \in 1..Len(s) |-> ToLower(s[i])]

\* unicode.IsSpace on the characters a line can hold
IsSpace(c) == c \in {" ", "\t", "\r"}

\* strings.TrimSpace
RECURSIVE TrimLeft(_)
TrimLeft(s) ==
  IF s # <<>> /\ IsSpace(Head(s)) THEN TrimLeft(Tail(s)) ELSE s

RECURSIVE TrimRight(_)
TrimRight(s) ==
  IF s # <<>> /\ IsSpace(s[Len(s)])
  THEN TrimRight(SubSeq(s, 1, Len(s) - 1)) ELSE s

TrimSpace(s) == TrimRight(TrimLeft(s))

\* strings.HasPrefix
HasPrefix(s, p) == Len(s) >= Len(p) /\ SubSeq(s, 1, Len(p)) = p

\* strings.TrimPrefix
TrimPrefix(s, p) ==
  IF HasPrefix(s, p) THEN SubSeq(s, Len(p) + 1, Len(s)) ELSE s

\* strings.Count for a one-character separator
Count(s, c) == Cardinality({i \in 1..Len(s) : s[i] = c})

\* does sub occur in s at position i
MatchAt(s, sub, i) ==
  i + Len(sub) - 1 <= Len(s) /\ SubSeq(s, i, i + Len(sub) - 1) = sub

\* strings.Contains
Contains(s, sub) == \E i \in 1..(Len(s) + 1) : MatchAt(s, sub, i)

\* the first element of strings.Split(s, "."): s up to its first dot
FirstPart(s) ==
  IF \E i \in 1..Len(s) : s[i] = "."
  THEN SubSeq(s, 1, (CHOOSE i \in 1..Len(s) :
                       s[i] = "." /\ \A j \in 1..(i - 1) : s[j] # ".") - 1)
  ELSE s

\* len(strings.Split(s, "."))
NumParts(s) == Count(s, ".") + 1

(***************************************************************************)
(* the two regular expressions                                              *)
(***************************************************************************)
HttpScheme  == <<"h","t","t","p",":","/","/">>
HttpsScheme == <<"h","t","t","p","s",":","/","/">>

\* length of the match of (?i)https?:// at position i of s, 0 if none
SchemeLenAt(s, i) ==
  IF MatchAt(LowerStr(s), HttpsScheme, i) THEN Len(HttpsScheme)
  ELSE IF MatchAt(LowerStr(s), HttpScheme, i) THEN Len(HttpScheme)
  ELSE 0

\* the match of [^/]+ at position i of s (empty if there is none)
RECURSIVE NonSlashRun(_, _)
NonSlashRun(s, i) ==
  IF i > Len(s) \/ s[i] = "/" THEN <<>>
  ELSE <<s[i]>> \o NonSlashRun(s, i + 1)

\* matches[2] of (?i)^(https?://)?([^/]+) on input; <<>> when nothing matches
\* (the optional scheme is tried first and given up when no host follows it)
AnchoredHost(input) ==
  LET k == SchemeLenAt(input, 1) IN
    IF k > 0 /\ NonSlashRun(input, k + 1) # <<>>
    THEN NonSlashRun(input, k + 1)
    ELSE NonSlashRun(input, 1)

\* matches[1] of the unanchored (?i)https?://([^/]+): the leftmost match
UrlHostStarts(s) ==
  {i \in 1..Len(s) : SchemeLenAt(s, i) > 0
                     /\ NonSlashRun(s, i + SchemeLenAt(s, i)) # <<>>}

UrlHost(s) ==
  LET i == CHOOSE i \in UrlHostStarts(s) : \A j \in UrlHostStarts(s) : i <= j
  IN  NonSlashRun(s, i + SchemeLenAt(s, i))

(***************************************************************************)
(* processors: identity extraction and classification                       *)
(***************************************************************************)
WwwPrefix  == <<"w","w","w",".">>
ApiPrefix  == <<"a","p","i",".">>
AppPrefix  == <<"a","p","p",".">>
DevPrefix  == <<"d","e","v",".">>
TestPrefix == <<"t","e","s","t",".">>

\* mutant: only the first prefix that matches is removed
ExtractDomain_FirstPrefixOnly(input) ==
  IF AnchoredHost(input) = <<>> THEN input
  ELSE
    LET d0 == AnchoredHost(input)
        domain ==
          IF HasPrefix(d0, WwwPrefix) THEN TrimPrefix(d0, WwwPrefix)
          ELSE IF HasPrefix(d0, ApiPrefix) THEN TrimPrefix(d0, ApiPrefix)
          ELSE IF HasPrefix(d0, AppPrefix) THEN TrimPrefix(d0, AppPrefix)
          ELSE IF HasPrefix(d0, DevPrefix) THEN TrimPrefix(d0, DevPrefix)
          ELSE TrimPrefix(d0, TestPrefix)
    IN  IF NumParts(domain) >= 2 THEN FirstPart(domain) ELSE domain

\* ExtractDomain: the organization name of a domain
ExtractDomain(input) ==
  IF AnchoredHost(input) = <<>> THEN input
  ELSE
    LET d0 == AnchoredHost(input)
        d1 == TrimPrefix(d0, WwwPrefix)
        d2 == TrimPrefix(d1, ApiPrefix)
        d3 == TrimPrefix(d2, AppPrefix)
        d4 == TrimPrefix(d3, DevPrefix)
        domain == TrimPrefix(d4, TestPrefix)
    IN  IF NumParts(domain) >= 2 THEN FirstPart(domain) ELSE domain

\* the scope pattern GetOrCreateProgram stores on a new program
ScopeOf(domain) == <<"*", ".">> \o TrimPrefix(domain, WwwPrefix)

\* mutant: the first target handed to GetOrCreateProgram as it was read
DomainOf_RawLine(firstTarget) == firstTarget

\* main: the domain handed to GetOrCreateProgram for the first target
DomainOf(firstTarget) ==
  IF Contains(firstTarget, <<":", "/", "/">>)
  THEN IF UrlHostStarts(firstTarget) # {} THEN UrlHost(firstTarget)
       ELSE firstTarget
  ELSE firstTarget

\* mutant: the ':' case of the switch placed before the "://" case
TargetType_PortBeforeUrl(targetURL) ==
  IF Count(targetURL, ".") = 1 /\ ~Contains(targetURL, <<"/">>)
       /\ ~Contains(targetURL, <<":">>) THEN "domain"
  ELSE IF Count(targetURL, ".") > 1 /\ ~Contains(targetURL, <<"/">>)
       /\ ~Contains(targetURL, <<":">>) THEN "subdomain"
  ELSE IF Contains(targetURL, <<":">>) THEN "ip_port"
  ELSE IF Contains(targetURL, <<":", "/", "/">>) THEN "url"
  ELSE "unknown"

\* GetOrCreateTarget: the switch that determines the target type
TargetType(targetURL) ==
  IF Count(targetURL, ".") = 1 /\ ~Contains(targetURL, <<"/">>)
       /\ ~Contains(targetURL, <<":">>) THEN "domain"
  ELSE IF Count(targetURL, ".") > 1 /\ ~Contains(targetURL, <<"/">>)
       /\ ~Contains(targetURL, <<":">>) THEN "subdomain"
  ELSE IF Contains(targetURL, <<":", "/", "/">>) THEN "url"
  ELSE IF Contains(targetURL, <<":">>) THEN "ip_port"
  ELSE "unknown"

\* utils.DetectTool: the source label of every run
DetectTool == <<"p","i","p","e","l","i","n","e","_","a","u","t","o">>

\* the context main passes to AddReconData
ContextOf(toolName) ==
  <<"D","i","s","c","o","v","e","r","e","d"," ","v","i","a"," ">> \o toolName

(***************************************************************************)
(* State                                                                    *)
(***************************************************************************)
VARIABLES
  dbFile,          \* the database file exists (os.Stat succeeds)
  schema,          \* number of statements of InitSchema executed so far
  programs,        \* rows of table programs, in insertion order
  targetRows,      \* rows of table targets, in insertion order
  recon_data,      \* rows of table recon_data, in insertion order
  pc,              \* where each invocation is in main
  hasStdin,        \* utils.HasStdinData() of the invocation
  stdin,           \* the raw lines not yet read from standard input
  targets,         \* main's slice of trimmed non-blank lines
  programID,       \* main's programID
  idx,             \* position of the range loop over targets (1-based)
  targetID,        \* main's targetID of the current line
  processedCount,  \* main's processedCount
  exitCode,        \* process exit status, -1 while running
  summary,         \* the counts of the "Completed!" line the run printed
  faults,          \* store errors injected so far
  storeErr,        \* history: the invocation saw a store call fail
  base,            \* history: the table sizes found by an invocation that
                   \* started when no other invocation was running
  arg              \* history: the parts the first input line was composed of

vars == <<dbFile, schema, programs, targetRows, recon_data, pc, hasStdin,
          stdin, targets, programID, idx, targetID, processedCount,
          exitCode, summary, faults, storeErr, base, arg>>

\* what the invoking shell sees of a run
out == <<exitCode, summary>>

store == <<dbFile, schema, programs, targetRows, recon_data>>
rows  == <<programs, targetRows, recon_data>>

\* the raw lines an invocation can read
LinePadded    == <<" ","a",".","c","o","\t">>
LineSubdomain == <<"b",".","a",".","c","o">>
LineBlank     == <<" ">>
RawLines == {LinePadded, LineSubdomain, LineBlank}

RECURSIVE SeqsUpTo(_, _)
SeqsUpTo(S, n) ==
  IF n = 0 THEN {<<>>}
  ELSE LET shorter == SeqsUpTo(S, n - 1)
       IN  shorter \cup {Append(q, x) : q \in shorter, x \in S}

Inputs == SeqsUpTo(RawLines, MaxLines)

(***************************************************************************)
(* database: schema and the SQL statements of the processors                *)
(***************************************************************************)
\* InitSchema: four CREATE TABLE and three CREATE INDEX statements
NumStmts == 7

\* position in InitSchema's statement list of the CREATE TABLE of a table
TableStmt(t) ==
  CASE t = "programs"   -> 1
    [] t = "targets"    -> 2
    [] t = "recon_data" -> 3
    [] t = "findings"   -> 4

TableExists(t) == schema >= TableStmt(t)

\* SELECT id FROM programs WHERE name = ?   (0 stands for sql.ErrNoRows)
SelectProgram(tbl, orgName) ==
  IF \E i \in 1..Len(tbl) : tbl[i].name = orgName
  THEN tbl[CHOOSE i \in 1..Len(tbl) : tbl[i].name = orgName].id
  ELSE 0

\* mutant: table programs without the UNIQUE constraint on name
ProgramNameFree_NoConstraint(tbl, orgName) == TRUE

\* programs.name is UNIQUE: may a row with this name be inserted
ProgramNameFree(tbl, orgName) ==
  \A i \in 1..Len(tbl) : tbl[i].name # orgName

\* the value of a column an INSERT does not name and that has no default: a
\* sequence like the text values, holding a marker that is no character
Null == <<"NULL">>

\* INSERT INTO programs (name, scope): the new row, id by AUTOINCREMENT
NewProgram(tbl, orgName, scope) ==
  [id |-> Len(tbl) + 1, name |-> orgName, url |-> Null, scope |-> scope,
   out_of_scope |-> Null, bounty_notes |-> Null]

\* mutant: the SELECT without its program_id condition
SelectTarget_AnyProgram(tbl, targetURL, pid) ==
  IF \E i \in 1..Len(tbl) : tbl[i].target = targetURL
  THEN tbl[CHOOSE i \in 1..Len(tbl) : tbl[i].target = targetURL].id
  ELSE 0

\* SELECT id FROM targets WHERE target = ? AND program_id = ?
SelectTarget(tbl, targetURL, pid) ==
  IF \E i \in 1..Len(tbl) : tbl[i].target = targetURL /\ tbl[i].program_id = pid
  THEN tbl[CHOOSE i \in 1..Len(tbl) :
             tbl[i].target = targetURL /\ tbl[i].program_id = pid].id
  ELSE 0

\* mutant: table targets without UNIQUE(program_id, target)
TargetKeyFree_NoConstraint(tbl, pid, targetURL) == TRUE

\* UNIQUE(program_id, target): may a row with this pair be inserted
TargetKeyFree(tbl, pid, targetURL) ==
  \A i \in 1..Len(tbl) :
     ~(tbl[i].program_id = pid /\ tbl[i].target = targetURL)

\* mutant: the program of a new target row is resolved from the row's own
\* line when a program of that name exists
NewTarget_ProgramOfLine(tbl, pid, targetURL, toolName, now) ==
  [id |-> Len(tbl) + 1,
   program_id |-> IF SelectProgram(programs, ExtractDomain(targetURL)) # 0
                  THEN SelectProgram(programs, ExtractDomain(targetURL))
                  ELSE pid,
   target |-> targetURL,
   type |-> TargetType(targetURL), source |-> toolName,
   alive |-> FALSE, last_checked |-> now, tested |-> FALSE]

\* mutant: a new target row counts as alive
NewTarget_AliveByDefault(tbl, pid, targetURL, toolName, now) ==
  [id |-> Len(tbl) + 1, program_id |-> pid, target |-> targetURL,
   type |-> TargetType(targetURL), source |-> toolName,
   alive |-> TRUE, last_checked |-> now, tested |-> FALSE]

\* INSERT INTO targets (program_id, target, type, source, last_checked);
\* alive and tested take their column defaults
NewTarget(tbl, pid, targetURL, toolName, now) ==
  [id |-> Len(tbl) + 1, program_id |-> pid, target |-> targetURL,
   type |-> TargetType(targetURL), source |-> toolName,
   alive |-> FALSE, last_checked |-> now, tested |-> FALSE]

\* mutant: the tool and data arguments bound to each other's column
NewRecon_SwappedColumns(tbl, tid, tool, data, context, now) ==
  [id |-> Len(tbl) + 1, target_id |-> tid, tool |-> data, data |-> tool,
   context |-> context, timestamp |-> now]

\* INSERT INTO recon_data (target_id, tool, data, context, timestamp)
NewRecon(tbl, tid, tool, data, context, now) ==
  [id |-> Len(tbl) + 1, target_id |-> tid, tool |-> tool, data |-> data,
   context |-> context, timestamp |-> now]

(***************************************************************************)
(* main                                                                     *)
(***************************************************************************)
\* mutant: the scanner loop without its blank-line test
RECURSIVE ReadTargets_KeepBlank(_)
ReadTargets_KeepBlank(lines) ==
  IF lines = <<>> THEN <<>>
  ELSE <<TrimSpace(Head(lines))>> \o ReadTargets_KeepBlank(Tail(lines))

\* the scanner loop: trim every line, drop the blank ones
RECURSIVE ReadTargets(_)
ReadTargets(lines) ==
  IF lines = <<>> THEN <<>>
  ELSE LET line == TrimSpace(Head(lines)) IN
       IF line = <<>> THEN ReadTargets(Tail(lines))
       ELSE <<line>> \o ReadTargets(Tail(lines))

FirstTarget(p) == targets[p][1]

\* time.Now() in invocation p; the invocations run at different times
Now(p) == p

\* what the "Completed!" line of main reports
SummaryLine(count, total, id) ==
  [processed |-> count, total |-> total, program |-> id]

\* no summary line printed
NoSummary == [processed |-> -1, total |-> -1, program |-> -1]

\* mutant: the exit status tells nothing about the lines
SummaryExit_AlwaysZero(count) == 0

\* exit status at the end of main
SummaryExit(count) == IF count > 0 THEN 0 ELSE 1

\* where main goes when EnsureDBExists has returned nil
AfterEnsure(p) ==
  IF hasStdin[p]
  THEN /\ pc' = [pc EXCEPT ![p] = "open"]
       /\ UNCHANGED out
  ELSE /\ pc' = [pc EXCEPT ![p] = "exited"]
       /\ exitCode' = [exitCode EXCEPT ![p] = 0]
       /\ summary' = summary

\* mutant: the failure exits report success to the shell
Fatal_StatusZero(p) ==
  /\ pc' = [pc EXCEPT ![p] = "exited"]
  /\ exitCode' = [exitCode EXCEPT ![p] = 0]
  /\ summary' = summary

\* log.Fatalf / os.Exit(1)
Fatal(p) ==
  /\ pc' = [pc EXCEPT ![p] = "exited"]
  /\ exitCode' = [exitCode EXCEPT ![p] = 1]
  /\ summary' = summary

\* a store call of p fails with an injected error
Fault(p) ==
  /\ faults < MaxFaults
  /\ faults' = faults + 1
  /\ storeErr' = [storeErr EXCEPT ![p] = TRUE]

\* a store call of p fails because the store itself rejects it
Rejected(p) ==
  /\ faults' = faults
  /\ storeErr' = [storeErr EXCEPT ![p] = TRUE]

NoError == UNCHANGED <<faults, storeErr>>

\* a first line that was not composed of parts
NoArg == [scheme |-> <<>>, prefixes |-> <<>>, base |-> <<>>, path |-> <<>>]

NoBase == [programs |-> 0, targets |-> 0, recon |-> 0, after |-> {}]

Init ==
  /\ dbFile = FALSE
  /\ schema = 0
  /\ programs = <<>>
  /\ targetRows = <<>>
  /\ recon_data = <<>>
  /\ pc = [p \in Procs |-> "init"]
  /\ hasStdin = [p \in Procs |-> FALSE]
  /\ stdin = [p \in Procs |-> <<>>]
  /\ targets = [p \in Procs |-> <<>>]
  /\ programID = [p \in Procs |-> 0]
  /\ idx = [p \in Procs |-> 0]
  /\ targetID = [p \in Procs |-> 0]
  /\ processedCount = [p \in Procs |-> 0]
  /\ exitCode = [p \in Procs |-> -1]
  /\ summary = [p \in Procs |-> NoSummary]
  /\ faults = 0
  /\ storeErr = [p \in Procs |-> FALSE]
  /\ base = [p \in Procs |-> NoBase]
  /\ arg = NoArg

\* the shell starts ferri with one of the given inputs on its stdin, or
\* with a stdin that is not piped; main.go:17-20
StartWith(p, inputs) ==
  /\ pc[p] = "init"
  /\ \A q \in Procs : StartsBefore(q, p) => pc[q] # "init"
  /\ \E piped \in BOOLEAN, lines \in inputs :
       /\ ~piped => lines = <<>>
       /\ hasStdin' = [hasStdin EXCEPT ![p] = piped]
       /\ stdin' = [stdin EXCEPT ![p] = lines]
  /\ pc' = [pc EXCEPT ![p] = "ensure"]
  /\ base' = [base EXCEPT ![p] =
                IF \A q \in Procs : pc[q] \in {"init", "exited"}
                THEN [programs |-> Len(programs), targets |-> Len(targetRows),
                      recon |-> Len(recon_data),
                      after |-> {q \in Procs : pc[q] = "exited"}]
                ELSE NoBase]
  /\ UNCHANGED <<store, targets, programID, idx, targetID, processedCount,
                 out, faults, storeErr, arg>>

Start(p) == StartWith(p, Inputs)

\* EnsureDBExists up to the creation of the file; main.go:25 and :42
EnsureDBExists(p) ==
  /\ pc[p] = "ensure"
  /\ IF dbFile
     THEN /\ AfterEnsure(p)
          /\ dbFile' = dbFile
     ELSE /\ dbFile' = TRUE
          /\ pc' = [pc EXCEPT ![p] = "schema"]
          /\ UNCHANGED out
  /\ UNCHANGED <<schema, rows, hasStdin, stdin, targets, programID, idx,
                 targetID, processedCount, faults, storeErr, base, arg>>

\* one db.Exec of InitSchema's loop, called from EnsureDBExists
InitSchema(p) ==
  /\ pc[p] = "schema"
  /\ \/ /\ schema' = schema + 1
        /\ IF schema + 1 = NumStmts
           THEN AfterEnsure(p)
           ELSE UNCHANGED <<pc, out>>
        /\ NoError
     \/ /\ Fault(p)
        /\ Fatal(p)
        /\ schema' = schema
  /\ UNCHANGED <<dbFile, rows, hasStdin, stdin, targets, programID, idx,
                 targetID, processedCount, base, arg>>

\* InitDB, the scanner loop and the empty-input exit; main.go:47-73
ReadStdin(p) ==
  /\ pc[p] = "open"
  /\ \/ /\ NoError
        /\ targets' = [targets EXCEPT ![p] = ReadTargets(stdin[p])]
        /\ stdin' = [stdin EXCEPT ![p] = <<>>]
        /\ IF ReadTargets(stdin[p]) = <<>>
           THEN Fatal(p)
           ELSE /\ pc' = [pc EXCEPT ![p] = "program_select"]
                /\ UNCHANGED out
     \/ /\ Fault(p)
        /\ Fatal(p)
        /\ UNCHANGED <<targets, stdin>>
  /\ UNCHANGED <<store, hasStdin, programID, idx, targetID,
                 processedCount, base, arg>>

\* main enters the loop over targets with the resolved program
EnterLoop(p, id) ==
  /\ programID' = [programID EXCEPT ![p] = id]
  /\ idx' = [idx EXCEPT ![p] = 1]
  /\ pc' = [pc EXCEPT ![p] = "target_select"]
  /\ UNCHANGED out

\* mutant: a program that exists already takes the scope of the new domain
ProgramFound_RefreshesScope(p, id) ==
  /\ programs' =
       [programs EXCEPT ![id].scope = ScopeOf(DomainOf(FirstTarget(p)))]
  /\ EnterLoop(p, id)

\* mutant: a program that exists already has its url set to the domain
ProgramFound_SetsUrl(p, id) ==
  /\ programs' = [programs EXCEPT ![id].url = DomainOf(FirstTarget(p))]
  /\ EnterLoop(p, id)

\* GetOrCreateProgram returns the id its SELECT found; no statement follows
ProgramFound(p, id) ==
  /\ programs' = programs
  /\ EnterLoop(p, id)

\* mutant: main logs the error of GetOrCreateProgram and goes on to the lines
\* with the zero identifier the call returned
ProgramFailed_Continues(p) ==
  /\ programs' = programs
  /\ EnterLoop(p, 0)

\* GetOrCreateProgram returned an error: log.Fatalf; main.go:94-96
ProgramFailed(p) ==
  /\ Fatal(p)
  /\ UNCHANGED <<programs, programID, idx>>

\* GetOrCreateProgram: the SELECT; main.go:78-96
ProgramSelect(p) ==
  /\ pc[p] = "program_select"
  /\ LET orgName == ExtractDomain(DomainOf(FirstTarget(p)))
         found   == SelectProgram(programs, orgName)
     IN  \/ /\ TableExists("programs")
            /\ NoError
            /\ IF found # 0
               THEN ProgramFound(p, found)
               ELSE /\ pc' = [pc EXCEPT ![p] = "program_insert"]
                    /\ UNCHANGED <<programs, programID, idx, out>>
         \/ /\ TableExists("programs")
            /\ Fault(p)
            /\ ProgramFailed(p)
         \/ /\ ~TableExists("programs")
            /\ Rejected(p)
            /\ ProgramFailed(p)
  /\ UNCHANGED <<dbFile, schema, targetRows, recon_data, hasStdin, stdin,
                 targets, targetID, processedCount, base, arg>>

\* GetOrCreateProgram: the INSERT after sql.ErrNoRows
ProgramInsert(p) ==
  /\ pc[p] = "program_insert"
  /\ LET domain  == DomainOf(FirstTarget(p))
         orgName == ExtractDomain(domain)
     IN  \/ /\ TableExists("programs")
            /\ ProgramNameFree(programs, orgName)
            /\ NoError
            /\ programs' = Append(programs,
                                  NewProgram(programs, orgName, ScopeOf(domain)))
            /\ EnterLoop(p, Len(programs) + 1)
         \/ /\ TableExists("programs")
            /\ ProgramNameFree(programs, orgName)
            /\ Fault(p)
            /\ ProgramFailed(p)
         \/ /\ ~(TableExists("programs")
                 /\ ProgramNameFree(programs, orgName))
            /\ Rejected(p)
            /\ ProgramFailed(p)
  /\ UNCHANGED <<dbFile, schema, targetRows, recon_data, hasStdin, stdin,
                 targets, targetID, processedCount, base, arg>>

\* the loop moves past the current line; after the last one main prints the
\* summary and exits; main.go:100, :117-125
NextLine(p, count) ==
  /\ idx' = [idx EXCEPT ![p] = idx[p] + 1]
  /\ IF idx[p] = Len(targets[p])
     THEN /\ pc' = [pc EXCEPT ![p] = "exited"]
          /\ summary' = [summary EXCEPT ![p] =
                           SummaryLine(count, Len(targets[p]), programID[p])]
          /\ exitCode' = [exitCode EXCEPT ![p] = SummaryExit(count)]
     ELSE /\ pc' = [pc EXCEPT ![p] = "target_select"]
          /\ UNCHANGED out

\* mutant: a line that failed is counted as processed
LineFailed_Counted(p) ==
  /\ NextLine(p, processedCount[p] + 1)
  /\ processedCount' = [processedCount EXCEPT ![p] = processedCount[p] + 1]

\* mutant: a line that failed is attempted again
LineFailed_Retry(p) ==
  /\ pc' = [pc EXCEPT ![p] = "target_select"]
  /\ UNCHANGED <<idx, processedCount, out>>

\* mutant: an error of a line ends the run as log.Fatalf would
LineFailed_Abort(p) ==
  /\ pc' = [pc EXCEPT ![p] = "exited"]
  /\ exitCode' = [exitCode EXCEPT ![p] = 1]
  /\ UNCHANGED <<idx, processedCount, summary>>

\* an error of GetOrCreateTarget or AddReconData: log and continue
LineFailed(p) ==
  /\ NextLine(p, processedCount[p])
  /\ processedCount' = processedCount

\* mutant: a target that exists already gets no observation
TargetFound_NoObservation(p, id) ==
  /\ targetRows' = targetRows
  /\ targetID' = [targetID EXCEPT ![p] = id]
  /\ NextLine(p, processedCount[p])
  /\ processedCount' = processedCount

\* mutant: a repeat sighting refreshes last_checked of the row
TargetFound_RefreshesLastChecked(p, id) ==
  /\ targetRows' = [targetRows EXCEPT ![id].last_checked = Now(p)]
  /\ targetID' = [targetID EXCEPT ![p] = id]
  /\ pc' = [pc EXCEPT ![p] = "recon_insert"]
  /\ UNCHANGED <<idx, out, processedCount>>

\* GetOrCreateTarget returns the id of the row its SELECT found, without a
\* further statement, and main goes on to AddReconData
TargetFound(p, id) ==
  /\ targetRows' = targetRows
  /\ targetID' = [targetID EXCEPT ![p] = id]
  /\ pc' = [pc EXCEPT ![p] = "recon_insert"]
  /\ UNCHANGED <<idx, out, processedCount>>

\* GetOrCreateTarget returns the LastInsertId of the row it inserted, and
\* main goes on to AddReconData
TargetCreated(p, id) ==
  /\ targetID' = [targetID EXCEPT ![p] = id]
  /\ pc' = [pc EXCEPT ![p] = "recon_insert"]
  /\ UNCHANGED <<idx, out, processedCount>>

\* GetOrCreateTarget: the SELECT; main.go:101
TargetSelect(p) ==
  /\ pc[p] = "target_select"
  /\ LET target == targets[p][idx[p]]
         found  == SelectTarget(targetRows, target, programID[p])
     IN  \/ /\ TableExists("targets")
            /\ NoError
            /\ IF found # 0
               THEN TargetFound(p, found)
               ELSE /\ pc' = [pc EXCEPT ![p] = "target_insert"]
                    /\ UNCHANGED <<targetRows, targetID, idx, out,
                                   processedCount>>
         \/ /\ TableExists("targets")
            /\ Fault(p)
            /\ LineFailed(p)
            /\ targetID' = [targetID EXCEPT ![p] = 0]
            /\ targetRows' = targetRows
         \/ /\ ~TableExists("targets")
            /\ Rejected(p)
            /\ LineFailed(p)
            /\ targetID' = [targetID EXCEPT ![p] = 0]
            /\ targetRows' = targetRows
  /\ UNCHANGED <<dbFile, schema, programs, recon_data, hasStdin, stdin,
                 targets, programID, base, arg>>

\* GetOrCreateTarget: the INSERT after sql.ErrNoRows
TargetInsert(p) ==
  /\ pc[p] = "target_insert"
  /\ LET target == targets[p][idx[p]] IN
         \/ /\ TableExists("targets")
            /\ TargetKeyFree(targetRows, programID[p], target)
            /\ NoError
            /\ targetRows' = Append(targetRows,
                 NewTarget(targetRows, programID[p], target, DetectTool,
                           Now(p)))
            /\ TargetCreated(p, Len(targetRows) + 1)
         \/ /\ TableExists("targets")
            /\ TargetKeyFree(targetRows, programID[p], target)
            /\ Fault(p)
            /\ LineFailed(p)
            /\ targetID' = [targetID EXCEPT ![p] = 0]
            /\ targetRows' = targetRows
         \/ /\ ~(TableExists("targets")
                 /\ TargetKeyFree(targetRows, programID[p], target))
            /\ Rejected(p)
            /\ LineFailed(p)
            /\ targetID' = [targetID EXCEPT ![p] = 0]
            /\ targetRows' = targetRows
  /\ UNCHANGED <<dbFile, schema, programs, recon_data, hasStdin, stdin,
                 targets, programID, base, arg>>

\* mutant: the observation replaces the one the target already has
InsertRecon_ReplacesPrevious(tbl, row) ==
  IF \E i \in 1..Len(tbl) : tbl[i].target_id = row.target_id
  THEN LET i == CHOOSE k \in 1..Len(tbl) : tbl[k].target_id = row.target_id
       IN  [tbl EXCEPT ![i] = [row EXCEPT !.id = tbl[i].id]]
  ELSE Append(tbl, row)

\* the effect of AddReconData's INSERT on table recon_data: one more row
InsertRecon(tbl, row) == Append(tbl, row)

\* mutant: a failed observation takes the target created for the line with it
ReconFailed_RollsBackTarget(p) ==
  /\ LineFailed(p)
  /\ recon_data' = recon_data
  /\ targetRows' = IF targetID[p] = Len(targetRows)
                      /\ \A i \in 1..Len(recon_data) :
                           recon_data[i].target_id # targetID[p]
                   THEN SubSeq(targetRows, 1, Len(targetRows) - 1)
                   ELSE targetRows

\* AddReconData returned an error: main logs it and continues; what
\* GetOrCreateTarget wrote for the line stays
ReconFailed(p) ==
  /\ LineFailed(p)
  /\ recon_data' = recon_data
  /\ targetRows' = targetRows

\* AddReconData and the rest of the loop body; main.go:107-114
AddReconData(p) ==
  /\ pc[p] = "recon_insert"
  /\ LET target == targets[p][idx[p]] IN
         \/ /\ TableExists("recon_data")
            /\ NoError
            /\ recon_data' = InsertRecon(recon_data,
                 NewRecon(recon_data, targetID[p], DetectTool, target,
                          ContextOf(DetectTool), Now(p)))
            /\ targetRows' = targetRows
            /\ processedCount' =
                 [processedCount EXCEPT ![p] = processedCount[p] + 1]
            /\ NextLine(p, processedCount[p] + 1)
         \/ /\ TableExists("recon_data")
            /\ Fault(p)
            /\ ReconFailed(p)
         \/ /\ ~TableExists("recon_data")
            /\ Rejected(p)
            /\ ReconFailed(p)
  /\ UNCHANGED <<dbFile, schema, programs, hasStdin, stdin,
                 targets, programID, targetID, base, arg>>

Next ==
  \E p \in Procs :
     \/ Start(p)
     \/ EnsureDBExists(p)
     \/ InitSchema(p)
     \/ ReadStdin(p)
     \/ ProgramSelect(p)
     \/ ProgramInsert(p)
     \/ TargetSelect(p)
     \/ TargetInsert(p)
     \/ AddReconData(p)

Spec == Init /\ [][Next]_vars

(***************************************************************************)
(* One invocation on an initialised, empty database, its stdin drawn from   *)
(* a set of lines that exercises extraction and classification              *)
(***************************************************************************)
\* every non-empty line of at most MaxStrLen characters over the characters
\* the classifier and the extractor look at
LineChars == {"a", ".", "/", ":"}
ShortLines == SeqsUpTo(LineChars, MaxStrLen) \ {<<>>}

\* lines composed as scheme, stacked prefixes, host and path
Schemes == {<<>>, HttpScheme, HttpsScheme, <<"H","T","T","P","S",":","/","/">>}
Prefixes == {WwwPrefix, ApiPrefix, AppPrefix, DevPrefix, TestPrefix,
             <<"W","W","W",".">>}
Hosts == {<<"e","x",".","c","o">>, <<"e","x">>}
Paths == {<<>>, <<"/","x">>}

RECURSIVE Concat(_)
Concat(ss) == IF ss = <<>> THEN <<>> ELSE Head(ss) \o Concat(Tail(ss))

Render(c) == c.scheme \o Concat(c.prefixes) \o c.base \o c.path

Composed ==
  {[scheme |-> sc, prefixes |-> ps, base |-> b, path |-> pa] :
     sc \in Schemes, ps \in SeqsUpTo(Prefixes, MaxPrefixes),
     b \in Hosts, pa \in Paths}

\* the lines and the batch the documentation gives as examples
ExampleCom      == <<"e","x","a","m","p","l","e",".","c","o","m">>
ApiExampleCom   == <<"a","p","i",".","e","x","a","m","p","l","e",".","c","o","m">>
ExampleUrlPath  == <<"h","t","t","p","s",":","/","/","e","x","a","m","p","l","e",".","c","o","m","/","p","a","t","h">>
ExampleUrlLogin == <<"h","t","t","p","s",":","/","/","e","x","a","m","p","l","e",".","c","o","m","/","l","o","g","i","n">>
ExampleIpPort   == <<"1","0",".","0",".","0",".","1",":","8","0","8","0">>
ExampleToken    == <<"r","a","n","d","o","m","t","o","k","e","n">>
ExampleUpperUrl == <<"h","t","t","p","s",":","/","/","W","W","W",".","E","x","a","m","p","l","e",".","c","o","m","/","x">>
ExampleBatch    == <<ExampleCom, ApiExampleCom, ExampleUrlLogin>>
OtherOrgBatch   == <<ExampleCom, <<"o",".","i","o">>, ExampleIpPort>>

\* a batch that holds one line twice
RepeatBatch     == <<ExampleCom, ExampleCom>>

SoloInputs ==
  {[lines |-> <<l>>, arg |-> NoArg] : l \in ShortLines}
  \cup {[lines |-> <<Render(c)>>, arg |-> c] : c \in Composed}
  \cup {[lines |-> b, arg |-> NoArg] :
          b \in {<<ExampleCom>>, <<ApiExampleCom>>, <<ExampleUrlPath>>,
                 <<ExampleIpPort>>, <<ExampleToken>>, <<ExampleUpperUrl>>,
                 ExampleBatch, OtherOrgBatch, RepeatBatch}}

Solo == "p1"

InitSolo ==
  /\ dbFile = TRUE
  /\ schema = NumStmts
  /\ programs = <<>>
  /\ targetRows = <<>>
  /\ recon_data = <<>>
  /\ \E in \in SoloInputs :
       /\ stdin = [p \in Procs |-> IF p = Solo THEN in.lines ELSE <<>>]
       /\ arg = in.arg
  /\ pc = [p \in Procs |-> IF p = Solo THEN "ensure" ELSE "init"]
  /\ hasStdin = [p \in Procs |-> p = Solo]
  /\ targets = [p \in Procs |-> <<>>]
  /\ programID = [p \in Procs |-> 0]
  /\ idx = [p \in Procs |-> 0]
  /\ targetID = [p \in Procs |-> 0]
  /\ processedCount = [p \in Procs |-> 0]
  /\ exitCode = [p \in Procs |-> -1]
  /\ summary = [p \in Procs |-> NoSummary]
  /\ faults = 0
  /\ storeErr = [p \in Procs |-> FALSE]
  /\ base = [p \in Procs |-> NoBase]

NextSolo ==
  \/ EnsureDBExists(Solo)
  \/ ReadStdin(Solo)
  \/ ProgramSelect(Solo)
  \/ ProgramInsert(Solo)
  \/ TargetSelect(Solo)
  \/ TargetInsert(Solo)
  \/ AddReconData(Solo)

SpecSolo == InitSolo /\ [][NextSolo]_vars

(***************************************************************************)
(* Invocations one after the other, any of which may be killed at any      *)
(* point: every statement is committed on its own, so a killed invocation  *)
(* leaves the store as its last completed statement left it                 *)
(***************************************************************************)
\* two hosts of one organization
HostCo == <<"a", ".", "c", "o">>
HostIo == <<"a", ".", "i", "o">>
RerunInputs == SeqsUpTo({HostCo, HostIo}, MaxLines)

\* the status the shell reports for a process ended by SIGKILL
KilledStatus == 137

\* mutant: the statements of a run are one transaction, undone by the kill
Kill_RollsBack(p) ==
  /\ pc[p] \notin {"init", "exited"}
  /\ pc' = [pc EXCEPT ![p] = "exited"]
  /\ exitCode' = [exitCode EXCEPT ![p] = KilledStatus]
  /\ programs' = SubSeq(programs, 1, base[p].programs)
  /\ targetRows' = SubSeq(targetRows, 1, base[p].targets)
  /\ recon_data' = SubSeq(recon_data, 1, base[p].recon)
  /\ UNCHANGED <<dbFile, schema, hasStdin, stdin, targets, programID, idx,
                 targetID, processedCount, summary, faults, storeErr, base,
                 arg>>

\* the process of p is killed between two of its steps: nothing is undone,
\* nothing is cleaned up
Kill(p) ==
  /\ pc[p] \notin {"init", "exited"}
  /\ pc' = [pc EXCEPT ![p] = "exited"]
  /\ exitCode' = [exitCode EXCEPT ![p] = KilledStatus]
  /\ UNCHANGED <<store, hasStdin, stdin, targets, programID, idx, targetID,
                 processedCount, summary, faults, storeErr, base, arg>>

\* the shell starts ferri when no other invocation is running
StartRerun(p) ==
  /\ \A q \in Procs : pc[q] \in {"init", "exited"}
  /\ StartWith(p, RerunInputs)

NextRerun ==
  \E p \in Procs :
     \/ StartRerun(p)
     \/ EnsureDBExists(p)
     \/ InitSchema(p)
     \/ ReadStdin(p)
     \/ ProgramSelect(p)
     \/ ProgramInsert(p)
     \/ TargetSelect(p)
     \/ TargetInsert(p)
     \/ AddReconData(p)
     \/ Kill(p)

SpecRerun == Init /\ [][NextRerun]_vars

(***************************************************************************)
(* EnsureDBExists system call by system call: os.Stat and os.Create are    *)
(* two steps, so two invocations can both find no file, and the os.Create  *)
(* of the later one truncates the file the earlier one already works on.   *)
(* The connection of the earlier one then sees an empty database: its      *)
(* statements fail with "no such table" until the later one has created    *)
(* the tables again, and then run against the new tables.                  *)
(***************************************************************************)
\* os.Stat in EnsureDBExists; database.go:30-32
StatDB(p) ==
  /\ pc[p] = "ensure"
  /\ IF dbFile
     THEN AfterEnsure(p)
     ELSE /\ pc' = [pc EXCEPT ![p] = "create"]
          /\ UNCHANGED out
  /\ UNCHANGED <<store, hasStdin, stdin, targets, programID, idx, targetID,
                 processedCount, faults, storeErr, base, arg>>

\* os.Create in EnsureDBExists creates the file or truncates it to no
\* content; database.go:37-41.  The step waits while another invocation is
\* inside InitSchema.
CreateDB(p) ==
  /\ pc[p] = "create"
  /\ \A q \in Procs : pc[q] # "schema"
  /\ dbFile' = TRUE
  /\ schema' = 0
  /\ programs' = <<>>
  /\ targetRows' = <<>>
  /\ recon_data' = <<>>
  /\ pc' = [pc EXCEPT ![p] = "schema"]
  /\ UNCHANGED <<hasStdin, stdin, targets, programID, idx, targetID,
                 processedCount, out, faults, storeErr, base, arg>>

NextSetup ==
  \E p \in Procs :
     \/ StartWith(p, RerunInputs)
     \/ StatDB(p)
     \/ CreateDB(p)
     \/ InitSchema(p)
     \/ ReadStdin(p)
     \/ ProgramSelect(p)
     \/ ProgramInsert(p)
     \/ TargetSelect(p)
     \/ TargetInsert(p)
     \/ AddReconData(p)

SpecSetup == Init /\ [][NextSetup]_vars

(***************************************************************************)
(* Properties                                                               *)
(***************************************************************************)
\* no invocation is running
Quiescent == \A p \in Procs : pc[p] \in {"init", "exited"}

\* no store call of any invocation has failed
NoStoreError == \A p \in Procs : ~storeErr[p]

Occurrences(sq, x) == Cardinality({i \in 1..Len(sq) : sq[i] = x})

RECURSIVE SumOver(_, _, _)
SumOver(S, g, l) ==
  IF S = {} THEN 0
  ELSE LET p == CHOOSE q \in S : TRUE IN
       (IF pc[p] = "exited" /\ programID[p] = g
        THEN Occurrences(targets[p], l) ELSE 0) + SumOver(S \ {p}, g, l)

\* how often line l was ingested under program g by the runs that are over
Ingested(g, l) == SumOver(Procs, g, l)

\* the lines of all batches
BatchLines == UNION {{targets[p][i] : i \in 1..Len(targets[p])} : p \in Procs}

TargetRowsOf(g, l) ==
  {i \in 1..Len(targetRows) :
     targetRows[i].program_id = g /\ targetRows[i].target = l}

ReconRowsOf(tid) ==
  {i \in 1..Len(recon_data) : recon_data[i].target_id = tid}

C2_RerunAddsOnlyObservations ==
  \A p \in Procs : \A q \in base[p].after :
     ( /\ pc[p] = "exited"
       /\ targets[p] # <<>>
       /\ targets[p] = targets[q]
       /\ ~storeErr[p] /\ ~storeErr[q] )
     => /\ Len(programs) = base[p].programs
        /\ Len(targetRows) = base[p].targets
        /\ Len(recon_data) = base[p].recon + Len(targets[p])
        /\ Len(recon_data) = 2 * Len(targets[p])

\* the second run of a batch of two distinct lines is over
C2_Witness ==
  \E p \in Procs : \E q \in base[p].after :
     /\ pc[p] = "exited"
     /\ Len(targets[p]) = 2 /\ targets[p][1] # targets[p][2]
     /\ targets[p] = targets[q]
     /\ ~storeErr[p] /\ ~storeErr[q]
     /\ Len(recon_data) = 4

\* C3: no two target rows have the same (program_id, target) pair.
C3_TargetKeyUnique ==
  \A i, j \in 1..Len(targetRows) :
     (targetRows[i].program_id = targetRows[j].program_id
        /\ targetRows[i].target = targetRows[j].target) => i = j

\* an invocation whose SELECT found no row is about to INSERT a pair that
\* another invocation has inserted in the meantime
C3_Witness ==
  \E p \in Procs :
     /\ pc[p] = "target_insert"
     /\ ~TargetKeyFree(targetRows, programID[p], targets[p][idx[p]])

\* C4: no two program rows have the same name.
C4_ProgramNameUnique ==
  \A i, j \in 1..Len(programs) :
     programs[i].name = programs[j].name => i = j

\* an invocation whose SELECT found no program is about to INSERT a name
\* that another invocation has inserted in the meantime
C4_Witness ==
  \E p \in Procs :
     /\ pc[p] = "program_insert"
     /\ ~ProgramNameFree(programs, ExtractDomain(DomainOf(FirstTarget(p))))
\* the invocation p takes the step
Stepped(p) == pc'[p] # pc[p] \/ idx'[p] # idx[p]

\* the line the loop of p is at
CurrentLine(p) == targets[p][idx[p]]

\* the organization name p resolves its program by
OrgName(p) == ExtractDomain(DomainOf(FirstTarget(p)))

\* C5: an invocation whose INSERT INTO programs is rejected by the UNIQUE
\* constraint on name (another invocation created the program in between)
\* does not terminate: it resolves the program again and goes on to its lines.
C5_ProgramConflictNotFatal ==
  [][\A p \in Procs :
       (Stepped(p) /\ pc[p] = "program_insert"
          /\ ~ProgramNameFree(programs, OrgName(p)))
       => /\ pc'[p] \in {"program_select", "target_select"}
          /\ exitCode'[p] = -1]_vars

\* C6: an invocation whose INSERT INTO targets is rejected by
\* UNIQUE(program_id, target) queries the target again by (program, line)
\* and goes on to append its observation; the line does not fail.
C6_TargetConflictRequeried ==
  [][\A p \in Procs :
       (Stepped(p) /\ pc[p] = "target_insert"
          /\ ~TargetKeyFree(targetRows, programID[p], CurrentLine(p)))
       => /\ pc'[p] = "recon_insert"
          /\ idx'[p] = idx[p]
          /\ targetID'[p] = SelectTarget(targetRows, CurrentLine(p),
                                         programID[p])]_vars

\* GetOrCreateTarget of the current line of p succeeds in this step: its
\* SELECT returns a row, or its INSERT adds one
ResolveSucceeds(p) ==
  /\ Stepped(p)
  /\ \/ /\ pc[p] = "target_select"
        /\ TableExists("targets")
        /\ faults' = faults
        /\ TargetRowsOf(programID[p], CurrentLine(p)) # {}
     \/ /\ pc[p] = "target_insert"
        /\ targetRows' # targetRows

DiscoveredVia ==
  <<"D","i","s","c","o","v","e","r","e","d"," ","v","i","a"," ">>

\* C7: a line whose target was resolved, found or created alike, is followed
\* by exactly one attempt to insert an observation for that target; the row
\* has tool = the source label, data = the line and context = "Discovered
\* via " followed by the source label, and nothing else adds observations.
C7_OneObservationPerResolvedLine ==
  [][/\ \A p \in Procs :
          /\ ResolveSucceeds(p) =>
               /\ pc'[p] = "recon_insert"
               /\ idx'[p] = idx[p]
               /\ targetID'[p] \in TargetRowsOf(programID[p], CurrentLine(p))'
          /\ (Stepped(p) /\ pc[p] = "recon_insert") =>
               /\ idx'[p] = idx[p] + 1
               /\ pc'[p] # "recon_insert"
               /\ \/ recon_data' = recon_data
                  \/ recon_data' = Append(recon_data,
                       [id |-> Len(recon_data) + 1,
                        target_id |-> targetID[p],
                        tool |-> DetectTool,
                        data |-> CurrentLine(p),
                        context |-> DiscoveredVia \o DetectTool,
                        timestamp |-> Now(p)])
     /\ recon_data' # recon_data =>
          \E p \in Procs : Stepped(p) /\ pc[p] = "recon_insert"]_vars

\* a target that existed already has received a further observation
C7_Witness ==
  \E i \in 1..Len(targetRows) :
     Cardinality(ReconRowsOf(targetRows[i].id)) >= 2

\* a store call of the current line of p fails in this step
LineErrors(p) ==
  /\ Stepped(p)
  /\ \/ pc[p] = "target_select" /\ pc'[p] \notin {"target_insert", "recon_insert"}
     \/ pc[p] = "target_insert" /\ targetRows' = targetRows
     \/ pc[p] = "recon_insert" /\ recon_data' = recon_data

\* C8: a store error at a line stays with that line: the step writes no row
\* and changes neither the program nor the count of the run, the loop moves
\* to the next line, and a run that entered the loop ends only after its
\* last line.
C8_LineErrorContained ==
  /\ [][\A p \in Procs :
          LineErrors(p) =>
            /\ idx'[p] = idx[p] + 1
            /\ idx[p] < Len(targets[p]) =>
                 pc'[p] = "target_select" /\ exitCode'[p] = -1
            /\ programID'[p] = programID[p]
            /\ processedCount'[p] = processedCount[p]
            /\ rows' = rows]_vars
  /\ [](\A p \in Procs :
          (pc[p] = "exited" /\ programID[p] # 0) =>
             idx[p] = Len(targets[p]) + 1)

\* a run alone on the store failed at the first of its two lines and has
\* recorded the second
C8_Witness ==
  \E p \in Procs :
     /\ \A q \in Procs \ {p} : pc[q] = "init"
     /\ pc[p] = "exited"
     /\ Len(targets[p]) = 2 /\ targets[p][1] # targets[p][2]
     /\ Len(recon_data) = 1 /\ recon_data[1].data = targets[p][2]
     /\ processedCount[p] = 1

\* the lines that hold a character that is not white space
NonBlank(lines) ==
  {i \in 1..Len(lines) : \E j \in 1..Len(lines[i]) : ~IsSpace(lines[i][j])}

EmptyInputRun(p) ==
  /\ pc[p] = "exited"
  /\ targets[p] = <<>>
  /\ NonBlank(stdin[p]) = {}

\* C10 as stated: a run whose input holds no non-blank line writes no
\* program, target or observation row and exits with non-zero status.
C10_EmptyInputFails ==
  /\ [](\A p \in Procs : EmptyInputRun(p) => exitCode[p] # 0)
  /\ [][\A p \in Procs :
          (Stepped(p) /\ NonBlank(stdin[p]) = {} /\ targets[p] = <<>>
             /\ targets'[p] = <<>>) => rows' = rows]_vars

\* C10 amended: a run that has data piped on stdin (HasStdinData) and reads
\* no non-blank line from it writes no program, target or observation row
\* and exits with status 1.
C10_PipedEmptyInputFails ==
  /\ [](\A p \in Procs : (EmptyInputRun(p) /\ hasStdin[p]) => exitCode[p] = 1)
  /\ [][\A p \in Procs :
          (Stepped(p) /\ hasStdin[p] /\ NonBlank(stdin[p]) = {}
             /\ targets[p] = <<>> /\ targets'[p] = <<>>) => rows' = rows]_vars

\* a run has read its piped stdin, found no target and left through
\* os.Exit(1), no store call having failed
C10_Witness ==
  \E p \in Procs :
     /\ EmptyInputRun(p) /\ hasStdin[p] /\ stdin[p] = <<>>
     /\ ~storeErr[p]
     /\ exitCode[p] = 1
\* C11: a run that resolved its program and went through its batch exits
\* with non-zero status exactly when no line was fully processed; with at
\* least one processed line it exits with status 0 and its summary reports
\* processedCount and totalCount.
C11_ExitStatusTellsAllFailed ==
  \A p \in Procs :
     (pc[p] = "exited" /\ programID[p] # 0) =>
        /\ exitCode[p] # 0 <=> processedCount[p] = 0
        /\ processedCount[p] > 0 =>
             /\ exitCode[p] = 0
             /\ summary[p].processed = processedCount[p]
             /\ summary[p].total = Len(targets[p])

\* a run has ended with one of its two lines processed and status 0
C11_Witness ==
  \E p \in Procs :
     /\ pc[p] = "exited" /\ programID[p] # 0
     /\ Len(targets[p]) = 2 /\ processedCount[p] = 1
     /\ summary[p].processed < summary[p].total
     /\ exitCode[p] = 0
\* the ordered first-match rules of the classifier, read off the string
RuleType(line) ==
  LET dots   == Cardinality({i \in 1..Len(line) : line[i] = "."})
      slash  == \E i \in 1..Len(line) : line[i] = "/"
      colon  == \E i \in 1..Len(line) : line[i] = ":"
      scheme == \E i \in 1..(Len(line) - 2) :
                   line[i] = ":" /\ line[i + 1] = "/" /\ line[i + 2] = "/"
  IN  IF dots = 1 /\ ~slash /\ ~colon THEN "domain"
      ELSE IF dots > 1 /\ ~slash /\ ~colon THEN "subdomain"
      ELSE IF scheme THEN "url"
      ELSE IF colon THEN "ip_port"
      ELSE "unknown"

\* C12: the type stored with a target is the result of the ordered
\* first-match rules on its string (one dot and no '/' or ':' is a domain,
\* several dots and no '/' or ':' a subdomain, "://" a url, ':' an ip_port,
\* anything else unknown); the documented examples get the documented types.
C12_TypeFollowsRules ==
  \A i \in 1..Len(targetRows) :
     LET row == targetRows[i] IN
       /\ row.type = RuleType(row.target)
       /\ row.type \in {"domain", "subdomain", "url", "ip_port", "unknown"}
       /\ row.target = ExampleCom     => row.type = "domain"
       /\ row.target = ApiExampleCom  => row.type = "subdomain"
       /\ row.target = ExampleUrlPath => row.type = "url"
       /\ row.target = ExampleIpPort  => row.type = "ip_port"
       /\ row.target = ExampleToken   => row.type = "unknown"

\* a host:port line has been stored, and so has a line that has "://"
\* behind several dots
C12_Witness ==
  \/ \E i \in 1..Len(targetRows) :
        targetRows[i].target = ExampleIpPort /\ targetRows[i].type = "ip_port"
  \/ \E i \in 1..Len(targetRows) :
        /\ targetRows[i].target = <<".", ":", "/", "/">>
        /\ targetRows[i].type = "url"
\* the first line the run has read
FirstLineIs(line) == targets[Solo] # <<>> /\ targets[Solo][1] = line

UpperWww == <<"W","W","W",".">>

\* C13: scheme and "www." are stripped whatever their letter case and the
\* leftmost remaining label is the organization: the program created from the
\* first line "https://WWW.Example.com/x" is named "example", and a host
\* behind "WWW." is named by its own first label.
C13_UpperCaseWwwStripped ==
  \A i \in 1..Len(programs) :
     /\ FirstLineIs(ExampleUpperUrl) =>
          programs[i].name = <<"e","x","a","m","p","l","e">>
     /\ (FirstLineIs(Render(arg)) /\ arg.prefixes = <<UpperWww>>) =>
          programs[i].name = <<"e","x">>
\* the priority order of the conventional prefixes
PrefixOrder == <<WwwPrefix, ApiPrefix, AppPrefix, DevPrefix, TestPrefix>>

\* the leftmost label of a host of two or more labels, else the host
LeftLabel(host) ==
  LET dots == {i \in 1..Len(host) : host[i] = "."} IN
    IF dots = {} THEN host
    ELSE SubSeq(host, 1, (CHOOSE i \in dots : \A j \in dots : i <= j) - 1)

\* the bare host of a composed line
BareHost(c) == Concat(c.prefixes) \o c.base

\* the host without the first prefix of the priority order it begins with
RECURSIVE StripFirstMatch(_, _)
StripFirstMatch(host, order) ==
  IF order = <<>> THEN host
  ELSE IF Len(host) >= Len(Head(order))
            /\ SubSeq(host, 1, Len(Head(order))) = Head(order)
       THEN SubSeq(host, Len(Head(order)) + 1, Len(host))
       ELSE StripFirstMatch(host, Tail(order))

\* C14 as stated: at most one conventional prefix is removed from the bare
\* host, the first of www., api., app., dev., test. that matches, and the
\* organization is the leftmost label of what remains (the whole remainder
\* when it has a single label); a host beginning "www.api." loses only "www.".
C14_AtMostOnePrefixRemoved ==
  \A i \in 1..Len(programs) :
     FirstLineIs(Render(arg)) =>
        programs[i].name = LeftLabel(StripFirstMatch(BareHost(arg), PrefixOrder))

\* the stacked prefixes left when each prefix of the priority order has been
\* tried once, in that order, on what the earlier removals left
RECURSIVE StripInOrder(_, _)
StripInOrder(ps, order) ==
  IF order = <<>> THEN ps
  ELSE IF ps # <<>> /\ Head(ps) = Head(order)
       THEN StripInOrder(Tail(ps), Tail(order))
       ELSE StripInOrder(ps, Tail(order))

\* C14 amended: each of www., api., app., dev., test. is removed at most
\* once, tried in that order on what the previous removals left (a host
\* beginning "www.api." loses both, one beginning "api.www." only "api.");
\* the organization is the leftmost label of what remains, or the whole
\* remainder when it has a single label.
C14_PrefixesRemovedInOrder ==
  \A i \in 1..Len(programs) :
     FirstLineIs(Render(arg)) =>
        programs[i].name =
          LeftLabel(Concat(StripInOrder(arg.prefixes, PrefixOrder)) \o arg.base)

\* a program has been created from a host that begins "www.api."
C14_Witness ==
  /\ FirstLineIs(Render(arg))
  /\ arg.prefixes = <<WwwPrefix, ApiPrefix>>
  /\ Len(programs) = 1
  /\ programs[1].name = <<"e","x">>
\* s without a leading lower-case "www."
WithoutWww(s) ==
  IF Len(s) >= 4 /\ SubSeq(s, 1, 4) = <<"w","w","w",".">>
  THEN SubSeq(s, 5, Len(s)) ELSE s

\* C15 as stated: the scope of a newly created program is "*." followed by
\* the raw first line without a leading "www."; scheme, path and the other
\* prefixes are kept, for URLs too.
C15_ScopeFromRawLine ==
  \A i \in 1..Len(programs) :
     targets[Solo] # <<>> =>
        programs[i].scope = <<"*", ".">> \o WithoutWww(targets[Solo][1])

\* C15 amended: the scope of a newly created program is "*." followed by the
\* domain main derived from the first line, without a leading lower-case
\* "www." and with every other prefix kept; the domain of a first line with
\* an http(s):// URL is its host (scheme and path dropped), the domain of any
\* other first line is the raw line.
C15_ScopeFromDerivedDomain ==
  \A i \in 1..Len(programs) :
     /\ FirstLineIs(Render(arg)) =>
          programs[i].scope =
            <<"*", ".">> \o
            (IF arg.scheme = <<>> THEN WithoutWww(Render(arg))
             ELSE WithoutWww(BareHost(arg)))
     /\ FirstLineIs(ExampleUrlLogin) =>
          programs[i].scope =
            <<"*",".","e","x","a","m","p","l","e",".","c","o","m">>
     /\ (arg = NoArg /\ targets[Solo] # <<>>
           /\ ~Contains(LowerStr(targets[Solo][1]), <<"h","t","t","p">>)) =>
          programs[i].scope = <<"*", ".">> \o WithoutWww(targets[Solo][1])

\* a program has been created from a URL with a path whose host begins
\* "www.api."
C15_Witness ==
  /\ FirstLineIs(Render(arg))
  /\ arg.scheme # <<>> /\ arg.path # <<>>
  /\ arg.prefixes = <<WwwPrefix, ApiPrefix>>
  /\ Len(programs) = 1
  /\ programs[1].scope = <<"*",".","a","p","i",".">> \o arg.base

C17_RepeatSightingLeavesRow ==
  [][/\ Len(targetRows') >= Len(targetRows)
     /\ \A i \in 1..Len(targetRows) : targetRows'[i] = targetRows[i]
     /\ \A p \in Procs :
          (/\ pc[p] = "target_select"
           /\ Stepped(p)
           /\ faults' = faults
           /\ TargetRowsOf(programID[p], CurrentLine(p)) # {}) =>
             /\ targetRows' = targetRows
             /\ pc'[p] = "recon_insert"
             /\ targetID'[p] \in TargetRowsOf(programID[p], CurrentLine(p))]_vars

\* an invocation is about to record an observation for a target row that an
\* earlier invocation created, and the row still has the values of its INSERT
C17_Witness ==
  \E p \in Procs :
    /\ pc[p] = "recon_insert"
    /\ targetID[p] \in 1..Len(targetRows)
    /\ LET r == targetRows[targetID[p]]
       IN  /\ r.last_checked # Now(p)
           /\ r.target = CurrentLine(p)
           /\ r.type = TargetType(r.target)
           /\ r.source = DetectTool
           /\ ~r.alive /\ ~r.tested

\* the lines of the batch are pairwise distinct
DistinctLines(lines) ==
  \A i, j \in 1..Len(lines) : lines[i] = lines[j] => i = j

\* the run is over and none of its store calls failed
CleanRun == pc[Solo] = "exited" /\ ~storeErr[Solo] /\ targets[Solo] # <<>>

\* C18: a run over n pairwise distinct lines on an empty store, none of whose
\* store calls failed, leaves exactly one program, named by ExtractDomain of
\* the domain of the first line; exactly n target rows, the i-th for line i
\* with type = the classifier's type of the line, source = the source label,
\* alive false and tested false; and exactly n observation rows, the i-th for
\* target i.  For example.com, api.example.com, https://example.com/login the
\* program is "example" and the types are domain, subdomain, url.
C18_BatchOnEmptyStore ==
  (CleanRun /\ DistinctLines(targets[Solo])) =>
    LET lines == targets[Solo]
        n == Len(lines)
    IN  /\ Len(programs) = 1
        /\ programs[1].name = ExtractDomain(DomainOf(lines[1]))
        /\ Len(targetRows) = n
        /\ \A i \in 1..n :
             /\ targetRows[i].target = lines[i]
             /\ targetRows[i].program_id = programs[1].id
             /\ targetRows[i].type = TargetType(lines[i])
             /\ targetRows[i].source = DetectTool
             /\ ~targetRows[i].alive
             /\ ~targetRows[i].tested
        /\ Len(recon_data) = n
        /\ \A i \in 1..n : recon_data[i].target_id = targetRows[i].id
        /\ processedCount[Solo] = n
        /\ lines = ExampleBatch =>
             /\ programs[1].name = <<"e","x","a","m","p","l","e">>
             /\ [i \in 1..3 |-> targetRows[i].type] =
                  <<"domain", "subdomain", "url">>

\* the run over the three example lines is over without a store error
C18_Witness ==
  /\ CleanRun
  /\ targets[Solo] = ExampleBatch
  /\ Len(targetRows) = 3
  /\ Len(recon_data) = 3

\* p is in its loop over the lines
InLoop(p) == pc[p] \in {"target_select", "target_insert", "recon_insert"}

C20_OrgNameNonEmpty ==
  /\ targets[Solo] # <<>> => OrgName(Solo) # <<>>
  /\ \A i \in 1..Len(programs) : programs[i].name # <<>>

C22_NoInputEnsuresStore ==
  /\ [](\A p \in Procs :
          (pc[p] = "exited" /\ ~hasStdin[p] /\ ~storeErr[p]) =>
             /\ exitCode[p] = 0
             /\ dbFile
             /\ schema = NumStmts)
  /\ [][\A p \in Procs :
          (Stepped(p) /\ ~hasStdin'[p]) => rows' = rows]_vars

\* a is b with some of its elements left out
RECURSIVE IsSubSeq(_, _)
IsSubSeq(a, b) ==
  IF a = <<>> THEN TRUE
  ELSE IF b = <<>> THEN FALSE
  ELSE IF Head(a) = Head(b) THEN IsSubSeq(Tail(a), Tail(b))
  ELSE IsSubSeq(a, Tail(b))

\* the invocation that started after p was over, if there is one
Successors(p) == {q \in Procs : p \in base[q].after}

\* the rows of a table that were appended while p ran, the invocations
\* running one after the other
AppendedBy(p, tbl, col) ==
  LET upto == IF Successors(p) = {} THEN Len(tbl)
              ELSE base[CHOOSE q \in Successors(p) : TRUE][col]
  IN  IF pc[p] = "init" THEN <<>> ELSE SubSeq(tbl, base[p][col] + 1, upto)

\* the lines the loop of p has reached so far
Attempted(p) ==
  SubSeq(targets[p], 1, IF idx[p] > Len(targets[p]) THEN Len(targets[p])
                        ELSE idx[p])

\* p is ended by a kill in this step
Killed(p) ==
  /\ pc[p] # "exited"
  /\ pc'[p] = "exited"
  /\ exitCode'[p] = KilledStatus

\* C23: at every point of a run, however it ends, the target rows and the
\* observation rows the run has appended are for lines the loop has reached,
\* in the order of the lines, and while no store call of the run failed the
\* observations are exactly those of the lines before the current one; a
\* kill leaves every row in the store.
C23_LinesInOrder ==
  /\ [](\A p \in Procs :
          LET obs  == AppendedBy(p, recon_data, "recon")
              tgts == AppendedBy(p, targetRows, "targets")
          IN  /\ IsSubSeq([i \in 1..Len(obs) |-> obs[i].data], Attempted(p))
              /\ IsSubSeq([i \in 1..Len(tgts) |-> tgts[i].target],
                          Attempted(p))
              /\ ~storeErr[p] =>
                   /\ Len(obs) = processedCount[p]
                   /\ \A i \in 1..Len(obs) : obs[i].data = targets[p][i]
                   /\ idx[p] > 0 => Len(obs) \in {idx[p] - 1, idx[p]})
  /\ [][\A p \in Procs : Killed(p) => store' = store]_vars

\* an invocation was killed at the second of two different lines: the rows
\* of the first line are in the store, the second line has no row
C23_Witness ==
  \E p \in Procs :
    /\ pc[p] = "exited"
    /\ exitCode[p] = KilledStatus
    /\ targets[p] = <<HostCo, HostIo>>
    /\ idx[p] = 2
    /\ Len(AppendedBy(p, recon_data, "recon")) = 1
    /\ \A i \in 1..Len(targetRows) : targetRows[i].target # HostIo
    /\ \E i \in 1..Len(targetRows) : targetRows[i].target = HostCo

\* the steps a line takes forward: the SELECT finds the target or leads to
\* the INSERT, the INSERT leads to the observation
Forward ==
  {<<"target_select", "target_insert">>, <<"target_select", "recon_insert">>,
   <<"target_insert", "recon_insert">>}

\* C24: the loop never goes back to a line (its index never decreases and
\* grows by one at a time).  A step on the current line either moves it
\* forward (classified and looked up, then resolved to a target row of the
\* line with the classifier's type, found or new) without an error, or ends
\* it: as done, when the observation was appended and the line counted, or as
\* failed, by a step whose store call failed, with no observation and no
\* count; then the loop is at the next line or the run is over.
C24_LineStateMachine ==
  [][\A p \in Procs :
       /\ idx'[p] >= idx[p]
       /\ (Stepped(p) /\ InLoop(p)) =>
            /\ idx'[p] \in {idx[p], idx[p] + 1}
            /\ idx'[p] = idx[p] =>
                 /\ <<pc[p], pc'[p]>> \in Forward
                 /\ ~LineErrors(p)
                 /\ processedCount'[p] = processedCount[p]
                 /\ recon_data' = recon_data
                 /\ pc'[p] = "recon_insert" =>
                      /\ targetID'[p] \in 1..Len(targetRows')
                      /\ targetRows'[targetID'[p]].target = CurrentLine(p)
                      /\ targetRows'[targetID'[p]].type =
                           TargetType(CurrentLine(p))
            /\ idx'[p] = idx[p] + 1 =>
                 /\ pc'[p] = IF idx[p] = Len(targets[p]) THEN "exited"
                             ELSE "target_select"
                 /\ \/ /\ pc[p] = "recon_insert"
                       /\ ~LineErrors(p)
                       /\ processedCount'[p] = processedCount[p] + 1
                       /\ Len(recon_data') = Len(recon_data) + 1
                       /\ recon_data'[Len(recon_data')].data = CurrentLine(p)
                    \/ /\ LineErrors(p)
                       /\ storeErr'[p]
                       /\ processedCount'[p] = processedCount[p]
                       /\ recon_data' = recon_data]_vars

\* a run is over in which the first line failed and the second was done
C24_Witness ==
  \E p \in Procs :
    /\ pc[p] = "exited"
    /\ Len(targets[p]) = 2
    /\ idx[p] = 3
    /\ storeErr[p]
    /\ processedCount[p] = 1
    /\ \E i \in 1..Len(recon_data) : recon_data[i].data = targets[p][2]

\* p ends in this step with a status other than 0
Aborts(p) == pc[p] # "exited" /\ pc'[p] = "exited" /\ exitCode'[p] # 0

\* the input held no line that is not blank
EmptyInput(p) == pc[p] = "open" /\ faults' = faults /\ targets'[p] = <<>>

\* the database could not be set up or opened
StoreUnavailable(p) == pc[p] \in {"schema", "open"} /\ faults' # faults

\* the loop is over, the summary is printed and no line was processed
AllTargetsFailed(p) ==
  /\ InLoop(p)
  /\ idx[p] = Len(targets[p])
  /\ summary'[p] = SummaryLine(0, Len(targets[p]), programID[p])

\* the query or the insert of GetOrCreateProgram fails in this step
ProgramErrors(p) ==
  /\ Stepped(p)
  /\ \/ pc[p] = "program_select"
        /\ pc'[p] \notin {"program_insert", "target_select"}
     \/ pc[p] = "program_insert" /\ programs' = programs

\* C25: an invocation ends with a failure status only by EmptyInput,
\* StoreUnavailable or AllTargetsFailed; a failure of the program's query or
\* insert is not among the causes.
C25_OnlyThreeAborts ==
  [][\A p \in Procs :
       Aborts(p) =>
         EmptyInput(p) \/ StoreUnavailable(p) \/ AllTargetsFailed(p)]_vars

\* C25 (amended): an invocation ends with a failure status only by
\* EmptyInput, StoreUnavailable, AllTargetsFailed or a failure of the
\* program's query or insert; such a failure always ends the run at once,
\* with status 1, no summary and no row written, while a failed store call of
\* a line never ends the run before its last line.
C25_ProgramFailureAborts ==
  [][\A p \in Procs :
       /\ Aborts(p) =>
            \/ EmptyInput(p)
            \/ StoreUnavailable(p)
            \/ AllTargetsFailed(p)
            \/ ProgramErrors(p)
       /\ ProgramErrors(p) =>
            /\ Aborts(p)
            /\ exitCode'[p] = 1
            /\ summary'[p] = NoSummary
            /\ rows' = rows
       /\ LineErrors(p) =>
            \/ pc'[p] = "target_select" /\ idx'[p] = idx[p] + 1
            \/ /\ idx[p] = Len(targets[p])
               /\ pc'[p] = "exited"
               /\ summary'[p] # NoSummary]_vars

\* an invocation with lines to ingest has ended with status 1 at the
\* resolution of its program, before its first line
C25_Witness ==
  \E p \in Procs :
    /\ pc[p] = "exited"
    /\ exitCode[p] = 1
    /\ targets[p] # <<>>
    /\ idx[p] = 0
    /\ storeErr[p]
    /\ summary[p] = NoSummary

\* p has run to the end of main and printed its summary
Completed(p) == pc[p] = "exited" /\ summary[p] # NoSummary

\* C26: a completed run has added as many observation rows as the count of
\* processed lines it reports; a step counts a line exactly when it appends
\* the observation of that line, and a step in which a store call of the line
\* fails appends nothing and counts nothing.
C26_CountIsObservations ==
  /\ [](\A p \in Procs :
          Completed(p) =>
            /\ Len(AppendedBy(p, recon_data, "recon")) = processedCount[p]
            /\ summary[p].processed = processedCount[p])
  /\ [][\A p \in Procs :
          /\ processedCount'[p] \in {processedCount[p], processedCount[p] + 1}
          /\ processedCount'[p] = processedCount[p] + 1 <=>
               /\ pc[p] = "recon_insert"
               /\ Stepped(p)
               /\ Len(recon_data') = Len(recon_data) + 1
               /\ recon_data' = Append(recon_data, recon_data'[Len(recon_data')])
               /\ recon_data'[Len(recon_data')].data = CurrentLine(p)
          /\ LineErrors(p) => recon_data' = recon_data]_vars

\* a run of two lines is completed in which one line failed: it reports one
\* processed line and has added one observation
C26_Witness ==
  \E p \in Procs :
    /\ Completed(p)
    /\ storeErr[p]
    /\ Len(targets[p]) = 2
    /\ processedCount[p] = 1
    /\ Len(AppendedBy(p, recon_data, "recon")) = 1

\* C27: in every state every target row references an existing program row,
\* and every observation row references an existing target row whose target
\* is the observation's data.
C27_ReferentialIntegrity ==
  /\ \A i \in 1..Len(targetRows) :
       \E j \in 1..Len(programs) : programs[j].id = targetRows[i].program_id
  /\ \A i \in 1..Len(recon_data) :
       \E j \in 1..Len(targetRows) :
         /\ targetRows[j].id = recon_data[i].target_id
         /\ targetRows[j].target = recon_data[i].data

\* C28: when the insert of the observation of a line fails, the step leaves
\* the target rows as they are, appends nothing and does not count the line;
\* if the target was created for this line (it is the newest row and has no
\* observation) it is still in the store afterwards, without an observation.
C28_NoRollbackOfTarget ==
  [][\A p \in Procs :
       (pc[p] = "recon_insert" /\ LineErrors(p)) =>
          /\ targetRows' = targetRows
          /\ recon_data' = recon_data
          /\ processedCount'[p] = processedCount[p]
          /\ (targetID[p] = Len(targetRows) /\ ReconRowsOf(targetID[p]) = {}) =>
               /\ targetID[p] \in 1..Len(targetRows')
               /\ targetRows'[targetID[p]].target = CurrentLine(p)
               /\ ReconRowsOf(targetID[p])' = {}]_vars

\* a run of one line is completed: the target it created is in the store
\* without an observation, and the line was not counted
C28_Witness ==
  \E p \in Procs :
    /\ Completed(p)
    /\ Len(targets[p]) = 1
    /\ processedCount[p] = 0
    /\ exitCode[p] = 1
    /\ targetID[p] \in 1..Len(targetRows)
    /\ targetRows[targetID[p]].target = targets[p][1]
    /\ targetRows[targetID[p]].last_checked = Now(p)
    /\ ReconRowsOf(targetID[p]) = {}

\* q ran first and created the only program, p ran after q was over
RanAfterCreator(p, q) ==
  /\ q \in base[p].after
  /\ base[q].programs = 0
  /\ base[p].programs = 1
  /\ targets[q] # <<>>

\* C29: a run that starts when the program of its organization name exists
\* creates no program, whatever the host of its first line: the program
\* table stays the one row, with the scope built from the first line of the
\* run that created it, the run resolves to that row, and every target row
\* the run appends references it.
C29_ProgramKeyedByName ==
  \A p, q \in Procs :
    (RanAfterCreator(p, q) /\ targets[p] # <<>> /\ OrgName(p) = OrgName(q)) =>
       /\ Len(programs) = 1
       /\ programs[1].name = OrgName(q)
       /\ programs[1].scope = ScopeOf(DomainOf(FirstTarget(q)))
       /\ programID[p] \in {0, programs[1].id}
       /\ LET tgts == AppendedBy(p, targetRows, "targets")
          IN  \A i \in 1..Len(tgts) : tgts[i].program_id = programs[1].id

\* the run after a.co's had a.io as its first line: it is completed, its
\* target is under the program of the first run and the scope is still *.a.co
C29_Witness ==
  \E p, q \in Procs :
    /\ RanAfterCreator(p, q)
    /\ FirstTarget(q) = HostCo
    /\ targets[p] # <<>>
    /\ FirstTarget(p) = HostIo
    /\ Completed(p)
    /\ Len(programs) = 1
    /\ programs[1].scope = <<"*", ".">> \o HostCo
    /\ \E i \in 1..Len(targetRows) :
         /\ targetRows[i].target = HostIo
         /\ targetRows[i].program_id = programs[1].id

\* EnsureDBExists returns nil to p in this step
EnsureReturnsNil(p) ==
  /\ pc[p] \in {"ensure", "schema"}
  /\ \/ pc'[p] = "open"
     \/ pc'[p] = "exited" /\ exitCode'[p] = 0

\* C30: when EnsureDBExists returns nil the database file exists and every
\* statement of the schema has been executed, whatever happened before, a
\* kill of an earlier invocation inside the schema initialization included;
\* and on a store that has its schema the call changes nothing.
C30_EnsureMeansSchema ==
  [][\A p \in Procs :
       /\ EnsureReturnsNil(p) => dbFile' /\ schema' = NumStmts
       /\ (pc[p] = "ensure" /\ Stepped(p) /\ dbFile /\ schema = NumStmts) =>
            store' = store]_vars
====
